---- MODULE Spec2Model ----
(***************************************************************************)
(* Model of the traceability ledger of RaktSetu                            *)
(* (src/RaktSetu/models/blockchain_traceability.py) and of the HTTP        *)
(* handlers of src/main.py that drive it.                                  *)
(*                                                                         *)
(* Python lists are objects: a Block built by mine_pending_transactions    *)
(* holds a reference to the very list that `pending_transactions` names    *)
(* until the attribute is rebound to a fresh list.  The model keeps the    *)
(* list objects in `lists` and lets blocks and `pending_transactions`      *)
(* hold references (positions in `lists`).                                 *)
(*                                                                         *)
(* SHA-256 is modelled as a collision-free digest: the hex string is a     *)
(* record of its leading digits (a deterministic function of the hashed    *)
(* text) and of the text it was computed from.                             *)
(***************************************************************************)
EXTENDS Integers, Sequences, FiniteSets, TLC

\* ---------------------------------------------------------------- bounds
MaxChain   == 3      \* longest chain explored (genesis included)
MaxRecords == 2      \* most records ever appended to the ledger
MaxTime    == 1      \* the clock reads 0..MaxTime
DigitBase  == 2      \* digits of the modelled digest are 0..DigitBase-1
HashLen    == 3      \* leading digits of the digest that are modelled

\* ------------------------------------------------------- program constants
DefaultDifficulty == 2

UnitIds      == {"UNIT-A", "UNIT-B"}
TestResults  == {[passed |-> TRUE, technician_id |-> "LAB-7"],
                 [passed |-> FALSE, technician_id |-> "LAB-7"],
                 [tests_performed |-> "HIV"]}
PatientIds   == {"PATIENT-1"}
Statuses     == {"collected", "tested", "rejected", "stored", "in_transit", "transfused"}

Threads      == {1, 2}

VARIABLES
    chain,                  \* BloodUnitBlockchain.chain
    lists,                  \* the list objects: lists[r] is the content of list r
    pending_transactions,   \* the list BloodUnitBlockchain.pending_transactions names
    difficulty,             \* BloodUnitBlockchain.difficulty
    now,                    \* the last reading of datetime.now()
    ret,                    \* what the last completed call returned
    appended,               \* how many times list.append ran on a pending list
    log,                    \* the records handed to add_transaction, in call order
    seals,                  \* mine_pending_transactions calls that found records
    tampered,               \* which block field was overwritten from outside
    pc,                     \* where each concurrent caller stands
    local                   \* each concurrent caller's new_block

vars == <<chain, lists, pending_transactions, difficulty, now, ret, appended,
          log, seals, tampered, pc, local>>

\* ------------------------------------------------------------- hashing
RECURSIVE SumSeq(_)
SumSeq(s) == IF s = <<>> THEN 0 ELSE Head(s) + SumSeq(Tail(s))

RECURSIVE Pow(_, _)
Pow(b, e) == IF e = 0 THEN 1 ELSE b * Pow(b, e - 1)

\* dict.get(key, default)
DictGet(d, key, default) == IF key \in DOMAIN d THEN d[key] ELSE default

\* the transactions a block's data holds (the list object it refers to)
DataValue(data, heap) ==
    IF data.tag = "transactions"
    THEN [tag |-> "transactions", transactions |-> heap[data.ref]]
    ELSE [tag |-> data.tag, transactions |-> <<>>]

\* json.dumps({...}, sort_keys=True): the five fields in key order
json_dumps(b, heap) ==
    <<DataValue(b.data, heap), b.index, b.nonce, b.previous_hash, b.timestamp>>

\* a number that depends on every hashed field; its digits lead the digest
Scramble(text) ==
    3 * text[2] + text[3] + 5 * text[5] + 7 * Len(text[1].transactions)
      + SumSeq(text[4].lead)
      + SumSeq([i \in 1..Len(text[1].transactions) |->
                  text[1].transactions[i].timestamp])

sha256(text) ==
    [lead |-> [i \in 1..HashLen |-> (Scramble(text) \div Pow(DigitBase, i - 1)) % DigitBase],
     text |-> text]

\* the string "0" used as the genesis block's previous_hash
ZeroHash == [lead |-> <<0>>, text |-> <<>>]

calculate_hash(b, heap) == sha256(json_dumps(b, heap))

\* hash[:difficulty] and "0" * difficulty
Prefix(h, d) == SubSeq(h.lead, 1, IF d < Len(h.lead) THEN d ELSE Len(h.lead))
Target(d) == [i \in 1..d |-> 0]

\* Block.__init__
Block(index, timestamp, data, previous_hash, heap) ==
    LET b0 == [index |-> index, timestamp |-> timestamp, data |-> data,
               previous_hash |-> previous_hash, nonce |-> 0, hash |-> ZeroHash]
    IN [b0 EXCEPT !.hash = calculate_hash(b0, heap)]

\* mine_block that tests the recomputed hash but leaves the loop before storing it
RECURSIVE mine_block_unstored(_, _, _)
mine_block_unstored(b, d, heap) ==
    IF Prefix(b.hash, d) = Target(d)
    THEN b
    ELSE LET b1 == [b EXCEPT !.nonce = b.nonce + 1]
         IN IF Prefix(calculate_hash(b1, heap), d) = Target(d)
            THEN b1
            ELSE mine_block_unstored([b1 EXCEPT !.hash = calculate_hash(b1, heap)], d, heap)

\* Block.mine_block
RECURSIVE mine_block(_, _, _)
mine_block(b, d, heap) ==
    IF Prefix(b.hash, d) = Target(d)
    THEN b
    ELSE LET b1 == [b EXCEPT !.nonce = b.nonce + 1]
         IN mine_block([b1 EXCEPT !.hash = calculate_hash(b1, heap)], d, heap)

\* ------------------------------------------------------------- the ledger
\* The ledger's fields as one value, so that a method that calls other
\* methods is the composition of their effects.
Ledger == [chain |-> chain, lists |-> lists, pending |-> pending_transactions]

\* the list object `pending_transactions` names
Pending(l) == l.lists[l.pending]

\* the record list of block b
Records(b, heap) == DataValue(b.data, heap).transactions

GenesisData == [tag |-> "genesis", ref |-> 0]

\* create_genesis_block that stamps the block once more after mining it
create_genesis_block_restamped(l, d, t) ==
    LET genesis_block == mine_block(Block(0, t, GenesisData, ZeroHash, l.lists), d, l.lists)
    IN [l EXCEPT !.chain = Append(l.chain, [genesis_block EXCEPT !.timestamp = t + 1])]

\* create_genesis_block that numbers the first block 1
create_genesis_block_one_based(l, d, t) ==
    LET genesis_block == mine_block(Block(1, t, GenesisData, ZeroHash, l.lists), d, l.lists)
    IN [l EXCEPT !.chain = Append(l.chain, genesis_block)]

\* BloodUnitBlockchain.create_genesis_block
create_genesis_block(l, d, t) ==
    LET genesis_block == mine_block(Block(0, t, GenesisData, ZeroHash, l.lists), d, l.lists)
    IN [l EXCEPT !.chain = Append(l.chain, genesis_block)]

\* BloodUnitBlockchain.get_latest_block
get_latest_block(l) == l.chain[Len(l.chain)]

\* add_transaction that starts the pending list anew with the record
add_transaction_replacing(l, transaction) ==
    [l EXCEPT !.lists[l.pending] = <<transaction>>]

\* add_transaction that puts the record before the pending ones
add_transaction_at_front(l, transaction) ==
    [l EXCEPT !.lists[l.pending] = <<transaction>> \o @]

\* BloodUnitBlockchain.add_transaction
add_transaction(l, transaction) ==
    [l EXCEPT !.lists[l.pending] = Append(@, transaction)]

\* a new block linked to the first block instead of the latest
NewBlock_linked_to_first(l, d, t) ==
    mine_block(Block(Len(l.chain), t,
                     [tag |-> "transactions", ref |-> l.pending],
                     l.chain[1].hash, l.lists),
               d, l.lists)

\* a new block that takes the latest block's index
NewBlock_latest_index(l, d, t) ==
    mine_block(Block(get_latest_block(l).index, t,
                     [tag |-> "transactions", ref |-> l.pending],
                     get_latest_block(l).hash, l.lists),
               d, l.lists)

\* the Block that mine_pending_transactions builds and mines; its data refers
\* to the pending list object itself
NewBlock(l, d, t) ==
    mine_block(Block(Len(l.chain), t,
                     [tag |-> "transactions", ref |-> l.pending],
                     get_latest_block(l).hash, l.lists),
               d, l.lists)

\* mine_pending_transactions that empties the pending list object in place
\* (pending_transactions.clear()) instead of naming a new list
mine_pending_transactions_clears_in_place(l, d, t) ==
    IF Pending(l) = <<>>
    THEN l
    ELSE [chain   |-> Append(l.chain, NewBlock(l, d, t)),
          lists   |-> [l.lists EXCEPT ![l.pending] = <<>>],
          pending |-> l.pending]

\* mine_pending_transactions without the test for an empty pending list
mine_pending_transactions_unguarded(l, d, t) ==
    [chain   |-> Append(l.chain, NewBlock(l, d, t)),
     lists   |-> Append(l.lists, <<>>),
     pending |-> Len(l.lists) + 1]

\* BloodUnitBlockchain.mine_pending_transactions
mine_pending_transactions(l, d, t) ==
    IF Pending(l) = <<>>
    THEN l
    ELSE [chain   |-> Append(l.chain, NewBlock(l, d, t)),
          lists   |-> Append(l.lists, <<>>),
          pending |-> Len(l.lists) + 1]

\* ------------------------------------------------------------ transactions
CollectionTx(unit_id, donor_id, blood_type, collection_date, location, t) ==
    [type |-> "COLLECTION", unit_id |-> unit_id, blood_type |-> blood_type,
     donor_id |-> donor_id, collection_date |-> collection_date,
     location |-> location, timestamp |-> t, status |-> "collected"]

\* add_testing_record that takes a missing "passed" for a failed test
TestingTx_absent_is_failed(unit_id, test_results, t) ==
    [type |-> "TESTING", unit_id |-> unit_id, test_results |-> test_results,
     tested_by |-> DictGet(test_results, "technician_id", "LAB-001"),
     timestamp |-> t,
     status |-> IF DictGet(test_results, "passed", FALSE) THEN "tested" ELSE "rejected"]

\* BloodUnitBlockchain.add_testing_record ; the record it builds
TestingTx(unit_id, test_results, t) ==
    [type |-> "TESTING", unit_id |-> unit_id, test_results |-> test_results,
     tested_by |-> DictGet(test_results, "technician_id", "LAB-001"),
     timestamp |-> t,
     status |-> IF DictGet(test_results, "passed", TRUE) THEN "tested" ELSE "rejected"]

StorageTx(unit_id, storage_location, temperature, expiry_date, t) ==
    [type |-> "STORAGE", unit_id |-> unit_id, storage_location |-> storage_location,
     temperature |-> temperature, expiry_date |-> expiry_date,
     timestamp |-> t, status |-> "stored"]

TransferTx(unit_id, from_location, to_location, transported_by, t) ==
    [type |-> "TRANSFER", unit_id |-> unit_id, from_location |-> from_location,
     to_location |-> to_location, transported_by |-> transported_by,
     timestamp |-> t, status |-> "in_transit"]

\* hashlib.sha256(patient_id.encode()).hexdigest()[:16]
PatientIdHash(patient_id) == [sha256_16 |-> patient_id]

\* add_transfusion_record that keeps the patient_id next to its hash
TransfusionTx_keeps_patient_id(unit_id, hospital, patient_id, doctor_id, t) ==
    [type |-> "TRANSFUSION", unit_id |-> unit_id, hospital |-> hospital,
     patient_id |-> patient_id,
     patient_id_hash |-> PatientIdHash(patient_id), doctor_id |-> doctor_id,
     timestamp |-> t, status |-> "transfused"]

\* BloodUnitBlockchain.add_transfusion_record ; the record it builds
TransfusionTx(unit_id, hospital, patient_id, doctor_id, t) ==
    [type |-> "TRANSFUSION", unit_id |-> unit_id, hospital |-> hospital,
     patient_id_hash |-> PatientIdHash(patient_id), doctor_id |-> doctor_id,
     timestamp |-> t, status |-> "transfused"]

\* ---------------------------------------------------------------- queries
\* is_chain_valid that checks each block's own hash only
is_chain_valid_hashes_only(l) ==
    \A i \in 2..Len(l.chain) :
        l.chain[i].hash = calculate_hash(l.chain[i], l.lists)

\* is_chain_valid that checks the linkage only
is_chain_valid_links_only(l) ==
    \A i \in 2..Len(l.chain) :
        l.chain[i].previous_hash = l.chain[i - 1].hash

\* BloodUnitBlockchain.is_chain_valid
is_chain_valid(l) ==
    \A i \in 2..Len(l.chain) :
        /\ l.chain[i].hash = calculate_hash(l.chain[i], l.lists)
        /\ l.chain[i].previous_hash = l.chain[i - 1].hash

\* get_unit_history without the comparison of the unit_id
RECURSIVE HistoryOfRecords_any_unit(_, _, _)
HistoryOfRecords_any_unit(b, txs, unit_id) ==
    IF txs = <<>> THEN <<>>
    ELSE <<[block_index |-> b.index, block_hash |-> b.hash,
            transaction |-> Head(txs)]>> \o HistoryOfRecords_any_unit(b, Tail(txs), unit_id)

\* BloodUnitBlockchain.get_unit_history
RECURSIVE HistoryOfRecords(_, _, _)
HistoryOfRecords(b, txs, unit_id) ==
    IF txs = <<>> THEN <<>>
    ELSE (IF DictGet(Head(txs), "unit_id", "") = unit_id
          THEN <<[block_index |-> b.index, block_hash |-> b.hash,
                  transaction |-> Head(txs)]>>
          ELSE <<>>) \o HistoryOfRecords(b, Tail(txs), unit_id)

RECURSIVE HistoryFrom(_, _, _)
HistoryFrom(l, i, unit_id) ==
    IF i > Len(l.chain) THEN <<>>
    ELSE (IF l.chain[i].data.tag = "transactions"
          THEN HistoryOfRecords(l.chain[i], Records(l.chain[i], l.lists), unit_id)
          ELSE <<>>) \o HistoryFrom(l, i + 1, unit_id)

get_unit_history(l, unit_id) == HistoryFrom(l, 1, unit_id)

\* verify_unit_authenticity that knows only units whose history starts with
\* a COLLECTION record
verify_unit_authenticity_collected_only(l, unit_id) ==
    LET history == get_unit_history(l, unit_id)
        is_valid == is_chain_valid(l)
    IN IF history = <<>> \/ history[1].transaction.type # "COLLECTION"
       THEN [verified |-> FALSE, message |-> "Unit ID not found in blockchain",
             unit_id |-> unit_id]
       ELSE [verified |-> is_valid,
             message |-> IF is_valid THEN "Unit verified and authentic"
                                     ELSE "Blockchain compromised!",
             unit_id |-> unit_id,
             total_records |-> Len(history),
             current_status |-> history[Len(history)].transaction.status,
             blockchain_valid |-> is_valid]

\* verify_unit_authenticity that reports the status of the oldest record
verify_unit_authenticity_oldest_status(l, unit_id) ==
    LET history == get_unit_history(l, unit_id)
        is_valid == is_chain_valid(l)
    IN IF history = <<>>
       THEN [verified |-> FALSE, message |-> "Unit ID not found in blockchain",
             unit_id |-> unit_id]
       ELSE [verified |-> is_valid,
             message |-> IF is_valid THEN "Unit verified and authentic"
                                     ELSE "Blockchain compromised!",
             unit_id |-> unit_id,
             total_records |-> Len(history),
             current_status |-> history[1].transaction.status,
             blockchain_valid |-> is_valid]

\* BloodUnitBlockchain.verify_unit_authenticity
verify_unit_authenticity(l, unit_id) ==
    LET history == get_unit_history(l, unit_id)
        is_valid == is_chain_valid(l)
    IN IF history = <<>>
       THEN [verified |-> FALSE, message |-> "Unit ID not found in blockchain",
             unit_id |-> unit_id]
       ELSE [verified |-> is_valid,
             message |-> IF is_valid THEN "Unit verified and authentic"
                                     ELSE "Blockchain compromised!",
             unit_id |-> unit_id,
             total_records |-> Len(history),
             current_status |-> history[Len(history)].transaction.status,
             blockchain_valid |-> is_valid]

\* len(block.data.get("transactions", [])) summed over the blocks from i on
RECURSIVE TransactionsFrom(_, _)
TransactionsFrom(l, i) ==
    IF i > Len(l.chain) THEN 0
    ELSE (IF l.chain[i].data.tag = "transactions"
          THEN Len(Records(l.chain[i], l.lists))
          ELSE 0) + TransactionsFrom(l, i + 1)

\* get_chain_info that counts the pending records as well
get_chain_info_counting_pending(l, d) ==
    [total_blocks |-> Len(l.chain),
     total_transactions |-> TransactionsFrom(l, 1) + Len(Pending(l)),
     chain_valid |-> is_chain_valid(l),
     latest_block_hash |-> get_latest_block(l).hash,
     difficulty |-> d]

\* BloodUnitBlockchain.get_chain_info
get_chain_info(l, d) ==
    [total_blocks |-> Len(l.chain),
     total_transactions |-> TransactionsFrom(l, 1),
     chain_valid |-> is_chain_valid(l),
     latest_block_hash |-> get_latest_block(l).hash,
     difficulty |-> d]

\* get_units_by_status that looks at the pending records as well
get_units_by_status_with_pending(l, status) ==
    {DictGet(Records(l.chain[i], l.lists)[j], "unit_id", "") :
        <<i, j>> \in {<<i, j>> \in (1..Len(l.chain)) \X (1..MaxRecords) :
                        /\ l.chain[i].data.tag = "transactions"
                        /\ j <= Len(Records(l.chain[i], l.lists))
                        /\ DictGet(Records(l.chain[i], l.lists)[j], "status", "") = status}}
      \cup {Pending(l)[j].unit_id :
               j \in {j \in 1..Len(Pending(l)) : Pending(l)[j].status = status}}

\* BloodUnitBlockchain.get_units_by_status ; the set it builds
get_units_by_status(l, status) ==
    {DictGet(Records(l.chain[i], l.lists)[j], "unit_id", "") :
        <<i, j>> \in {<<i, j>> \in (1..Len(l.chain)) \X (1..MaxRecords) :
                        /\ l.chain[i].data.tag = "transactions"
                        /\ j <= Len(Records(l.chain[i], l.lists))
                        /\ DictGet(Records(l.chain[i], l.lists)[j], "status", "") = status}}

\* BloodUnitBlockchain.get_audit_trail ; the entries of one block.  Every
\* record the ledger builds has the four fields that are read with .get
RECURSIVE AuditOfRecords(_, _)
AuditOfRecords(b, txs) ==
    IF txs = <<>> THEN <<>>
    ELSE <<[block |-> b.index,
            timestamp |-> Head(txs).timestamp,
            type |-> Head(txs).type,
            unit_id |-> Head(txs).unit_id,
            status |-> Head(txs).status,
            block_hash |-> b.hash]>> \o AuditOfRecords(b, Tail(txs))

RECURSIVE AuditFrom(_, _, _, _)
AuditFrom(l, i, start_date, end_date) ==
    IF i > Len(l.chain) THEN <<>>
    ELSE (IF /\ start_date <= l.chain[i].timestamp
             /\ l.chain[i].timestamp <= end_date
             /\ l.chain[i].data.tag = "transactions"
          THEN AuditOfRecords(l.chain[i], Records(l.chain[i], l.lists))
          ELSE <<>>) \o AuditFrom(l, i + 1, start_date, end_date)

get_audit_trail(l, start_date, end_date) == AuditFrom(l, 1, start_date, end_date)

\* Block.to_dict
to_dict(b, heap) ==
    [index |-> b.index, timestamp |-> b.timestamp, data |-> DataValue(b.data, heap),
     previous_hash |-> b.previous_hash, nonce |-> b.nonce, hash |-> b.hash]

\* BloodUnitBlockchain.export_chain
export_chain(l) == [i \in 1..Len(l.chain) |-> to_dict(l.chain[i], l.lists)]

\* ------------------------------------------------------------ the state
NoTamper == [on |-> FALSE, block |-> 0, field |-> "none"]

\* a caller that holds no new_block
NoBlock == [index |-> 0, timestamp |-> 0, data |-> GenesisData,
            previous_hash |-> ZeroHash, nonce |-> 0, hash |-> ZeroHash]

EmptyLedger == [chain |-> <<>>, lists |-> <<<<>>>>, pending |-> 1]

\* BloodUnitBlockchain.__init__ ; datetime.now() reads some t
Init ==
    /\ \E t \in 0..MaxTime :
          /\ chain = create_genesis_block(EmptyLedger, DefaultDifficulty, t).chain
          /\ now = t
    /\ lists = <<<<>>>>
    /\ pending_transactions = 1
    /\ difficulty = DefaultDifficulty
    /\ ret = [op |-> "__init__"]
    /\ appended = 0
    /\ log = <<>>
    /\ seals = 0
    /\ tampered = NoTamper
    /\ pc = [th \in Threads |-> "idle"]
    /\ local = [th \in Threads |-> NoBlock]

Commit(l) ==
    /\ chain' = l.chain
    /\ lists' = l.lists
    /\ pending_transactions' = l.pending

\* every record held by the ledger's list objects
TotalRecords == SumSeq([i \in 1..Len(lists) |-> Len(lists[i])])

CanAppend == TotalRecords < MaxRecords
CanSeal == Len(chain) < MaxChain

\* what mine_pending_transactions returns
MineResult(l0, l1) ==
    IF Pending(l0) = <<>>
    THEN [op |-> "mine_pending_transactions", none |-> TRUE]
    ELSE [op |-> "mine_pending_transactions", none |-> FALSE,
          block |-> get_latest_block(l1)]

\* ------------------------------------------------------------- operations
\* add_transaction called directly with a caller-built record
AddTransaction ==
    /\ CanAppend
    /\ \E u \in UnitIds :
          LET transaction == [type |-> "NOTE", unit_id |-> u, timestamp |-> now,
                              status |-> "noted"]
          IN /\ Commit(add_transaction(Ledger, transaction))
             /\ log' = Append(log, transaction)
    /\ ret' = [op |-> "add_transaction"]
    /\ appended' = appended + 1
    /\ UNCHANGED <<difficulty, now, seals, tampered, pc, local>>

\* mine_pending_transactions called directly
MinePendingTransactions ==
    /\ Pending(Ledger) # <<>> => CanSeal
    /\ \E t \in now..MaxTime :
          LET l1 == mine_pending_transactions(Ledger, difficulty, t)
          IN /\ Commit(l1)
             /\ ret' = MineResult(Ledger, l1)
             /\ now' = IF Pending(Ledger) = <<>> THEN now ELSE t
    /\ seals' = IF Pending(Ledger) = <<>> THEN seals ELSE seals + 1
    /\ UNCHANGED <<difficulty, appended, log, tampered, pc, local>>

\* create_blood_unit: uuid4 draws the identifier
CreateBloodUnit ==
    /\ CanAppend
    /\ \E u \in UnitIds, t \in now..MaxTime :
          LET transaction == CollectionTx(u, "D1", "O+", "2025-01-01", "BANK-1", t)
          IN /\ Commit(add_transaction(Ledger, transaction))
             /\ log' = Append(log, transaction)
             /\ ret' = [op |-> "create_blood_unit", unit_id |-> u]
             /\ now' = t
    /\ appended' = appended + 1
    /\ UNCHANGED <<difficulty, seals, tampered, pc, local>>

\* the common tail of the add_*_record methods
RecordEvent(op, transaction, t2) ==
    LET l1 == add_transaction(Ledger, transaction)
        l2 == mine_pending_transactions(l1, difficulty, t2)
    IN /\ Commit(l2)
       /\ ret' = [op |-> op]
       /\ now' = t2
       /\ appended' = appended + 1
       /\ log' = Append(log, transaction)
       /\ seals' = seals + 1
       /\ UNCHANGED <<difficulty, tampered, pc, local>>

add_testing_record(unit_id) ==
    /\ CanAppend /\ CanSeal
    /\ \E r \in TestResults, t1 \in now..MaxTime :
         \E t2 \in t1..MaxTime :
            RecordEvent("add_testing_record", TestingTx(unit_id, r, t1), t2)

AddTestingRecord == \E u \in UnitIds : add_testing_record(u)

add_storage_record(unit_id) ==
    /\ CanAppend /\ CanSeal
    /\ \E t1 \in now..MaxTime :
         \E t2 \in t1..MaxTime :
            RecordEvent("add_storage_record",
                        StorageTx(unit_id, "FRIDGE-1", 4, "2026-01-01", t1), t2)

AddStorageRecord == \E u \in UnitIds : add_storage_record(u)

add_transfer_record(unit_id) ==
    /\ CanAppend /\ CanSeal
    /\ \E t1 \in now..MaxTime :
         \E t2 \in t1..MaxTime :
            RecordEvent("add_transfer_record",
                        TransferTx(unit_id, "BANK-1", "HOSP-1", "VAN-1", t1), t2)

AddTransferRecord == \E u \in UnitIds : add_transfer_record(u)

add_transfusion_record(unit_id) ==
    /\ CanAppend /\ CanSeal
    /\ \E p \in PatientIds, t1 \in now..MaxTime :
         \E t2 \in t1..MaxTime :
            RecordEvent("add_transfusion_record",
                        TransfusionTx(unit_id, "HOSP-1", p, "DOC-1", t1), t2)

AddTransfusionRecord == \E u \in UnitIds : add_transfusion_record(u)

\* an is_chain_valid that stores each hash it recomputes in the block
IsChainValid_rehashing ==
    /\ ret' = [op |-> "is_chain_valid", value |-> is_chain_valid(Ledger)]
    /\ chain' = [i \in 1..Len(chain) |->
                   IF i = 1 THEN chain[i]
                   ELSE [chain[i] EXCEPT !.hash = calculate_hash(chain[i], lists)]]
    /\ UNCHANGED <<lists, pending_transactions, difficulty, now, appended,
                   log, seals, tampered, pc, local>>

IsChainValid ==
    /\ ret' = [op |-> "is_chain_valid", value |-> is_chain_valid(Ledger)]
    /\ UNCHANGED <<chain, lists, pending_transactions, difficulty, now, appended,
                   log, seals, tampered, pc, local>>

VerifyUnitAuthenticity ==
    /\ \E u \in UnitIds :
          ret' = [op |-> "verify_unit_authenticity",
                  result |-> verify_unit_authenticity(Ledger, u)]
    /\ UNCHANGED <<chain, lists, pending_transactions, difficulty, now, appended,
                   log, seals, tampered, pc, local>>

GetUnitHistory ==
    /\ \E u \in UnitIds :
          ret' = [op |-> "get_unit_history", value |-> get_unit_history(Ledger, u)]
    /\ UNCHANGED <<chain, lists, pending_transactions, difficulty, now, appended,
                   log, seals, tampered, pc, local>>

GetChainInfo ==
    /\ ret' = [op |-> "get_chain_info", info |-> get_chain_info(Ledger, difficulty)]
    /\ UNCHANGED <<chain, lists, pending_transactions, difficulty, now, appended,
                   log, seals, tampered, pc, local>>

GetUnitsByStatus ==
    /\ \E status \in Statuses :
          ret' = [op |-> "get_units_by_status",
                  units |-> get_units_by_status(Ledger, status)]
    /\ UNCHANGED <<chain, lists, pending_transactions, difficulty, now, appended,
                   log, seals, tampered, pc, local>>

GetAuditTrail ==
    /\ \E start_date \in 0..MaxTime, end_date \in 0..MaxTime :
          ret' = [op |-> "get_audit_trail",
                  records |-> get_audit_trail(Ledger, start_date, end_date)]
    /\ UNCHANGED <<chain, lists, pending_transactions, difficulty, now, appended,
                   log, seals, tampered, pc, local>>

ExportChain ==
    /\ ret' = [op |-> "export_chain", blocks |-> export_chain(Ledger)]
    /\ UNCHANGED <<chain, lists, pending_transactions, difficulty, now, appended,
                   log, seals, tampered, pc, local>>

Next ==
    \/ AddTransaction
    \/ MinePendingTransactions
    \/ CreateBloodUnit
    \/ AddTestingRecord
    \/ AddStorageRecord
    \/ AddTransferRecord
    \/ AddTransfusionRecord

\* one caller at a time uses the operations that change the ledger
Spec == Init /\ [][Next]_vars

\* one caller at a time appends, seals, records transfers and asks the queries
NextQuery ==
    \/ AddTransaction
    \/ CreateBloodUnit
    \/ MinePendingTransactions
    \/ AddTransferRecord
    \/ GetUnitHistory
    \/ GetChainInfo
    \/ GetUnitsByStatus
    \/ GetAuditTrail

SpecQuery == Init /\ [][NextQuery]_vars

\* ---------------------------------------------------------------- tampering
\* The attributes of a Block and the dict and list it holds are plain public
\* Python objects: code outside the ledger can overwrite one of them.  Each
\* action overwrites one field of one block of the chain with another value.
Tampered(i, field) == [on |-> TRUE, block |-> i - 1, field |-> field]

Untouched == <<pending_transactions, difficulty, now, appended, log, seals, pc, local>>

\* hashes to overwrite a hash field of block i with: the string "0", the
\* block's own hash and the hash of the block with another nonce
OtherHashes(i) == {ZeroHash, chain[i].hash,
                   calculate_hash([chain[i] EXCEPT !.nonce = @ + 1], lists)}

TamperIndex ==
    /\ ~tampered.on
    /\ \E i \in 1..Len(chain), v \in 0..Len(chain) :
          /\ v # chain[i].index
          /\ chain' = [chain EXCEPT ![i].index = v]
          /\ tampered' = Tampered(i, "index")
          /\ ret' = [op |-> "overwritten"]
    /\ UNCHANGED <<lists, Untouched>>

TamperTimestamp ==
    /\ ~tampered.on
    /\ \E i \in 1..Len(chain) :
        \E v \in {chain[i].timestamp + 1} :
          /\ chain' = [chain EXCEPT ![i].timestamp = v]
          /\ tampered' = Tampered(i, "timestamp")
          /\ ret' = [op |-> "overwritten"]
    /\ UNCHANGED <<lists, Untouched>>

TamperNonce ==
    /\ ~tampered.on
    /\ \E i \in 1..Len(chain) :
        \E v \in {chain[i].nonce + 1} :
          /\ chain' = [chain EXCEPT ![i].nonce = v]
          /\ tampered' = Tampered(i, "nonce")
          /\ ret' = [op |-> "overwritten"]
    /\ UNCHANGED <<lists, Untouched>>

TamperPreviousHash ==
    /\ ~tampered.on
    /\ \E i \in 1..Len(chain) :
        \E v \in OtherHashes(i) :
          /\ v # chain[i].previous_hash
          /\ chain' = [chain EXCEPT ![i].previous_hash = v]
          /\ tampered' = Tampered(i, "previous_hash")
          /\ ret' = [op |-> "overwritten"]
    /\ UNCHANGED <<lists, Untouched>>

TamperHash ==
    /\ ~tampered.on
    /\ \E i \in 1..Len(chain) :
        \E v \in OtherHashes(i) :
          /\ v # chain[i].hash
          /\ chain' = [chain EXCEPT ![i].hash = v]
          /\ tampered' = Tampered(i, "hash")
          /\ ret' = [op |-> "overwritten"]
    /\ UNCHANGED <<lists, Untouched>>

\* other contents for a block's transaction list
ForgedLists(txs) ==
    ({SubSeq(txs, 1, Len(txs) - 1)}
       \cup {[txs EXCEPT ![1].status = "forged"]}
       \cup {[txs EXCEPT ![1].unit_id = u] : u \in UnitIds}) \ {txs}

TamperRecords ==
    /\ ~tampered.on
    /\ \E i \in 1..Len(chain) :
          /\ IF chain[i].data.tag = "transactions"
             THEN /\ \E txs \in ForgedLists(lists[chain[i].data.ref]) :
                        lists' = [lists EXCEPT ![chain[i].data.ref] = txs]
                  /\ chain' = chain
             ELSE /\ chain' = [chain EXCEPT ![i].data.tag = "forged"]
                  /\ lists' = lists
          /\ tampered' = Tampered(i, "records")
          /\ ret' = [op |-> "overwritten"]
    /\ UNCHANGED Untouched

\* the records of one block are altered and the block's hash attribute is set
\* to calculate_hash() of the altered block; no other block is touched
TamperRecordsRehashed ==
    /\ ~tampered.on
    /\ \E i \in 1..Len(chain) :
          /\ IF chain[i].data.tag = "transactions"
             THEN /\ \E txs \in ForgedLists(lists[chain[i].data.ref]) :
                        lists' = [lists EXCEPT ![chain[i].data.ref] = txs]
                  /\ chain' = [chain EXCEPT ![i].hash = calculate_hash(chain[i], lists')]
             ELSE /\ chain' = [chain EXCEPT ![i] =
                        LET b1 == [chain[i] EXCEPT !.data.tag = "forged"]
                        IN [b1 EXCEPT !.hash = calculate_hash(b1, lists)]]
                  /\ lists' = lists
          /\ tampered' = Tampered(i, "records_rehashed")
          /\ ret' = [op |-> "overwritten"]
    /\ UNCHANGED Untouched

Tamper ==
    \/ TamperIndex
    \/ TamperTimestamp
    \/ TamperNonce
    \/ TamperPreviousHash
    \/ TamperHash
    \/ TamperRecords

\* units are created, sealed and transferred until one field is overwritten;
\* the queries run before and after that.  The calls follow each other within
\* one reading of the clock: what an overwrite does to the hashes does not
\* depend on the time between the calls.
NextTamper ==
    \/ ~tampered.on /\ now' = now /\ CreateBloodUnit
    \/ ~tampered.on /\ now' = now /\ MinePendingTransactions
    \/ ~tampered.on /\ now' = now /\ AddTransferRecord
    \/ Tamper
    \/ TamperRecordsRehashed
    \/ IsChainValid
    \/ VerifyUnitAuthenticity

SpecTamper == Init /\ [][NextTamper]_vars

\* ------------------------------------------------------ concurrent callers
\* Callers on several threads share the one ledger; the class takes no lock.
\* Each caller runs add_transaction and then mine_pending_transactions, as
\* the add_*_record methods and the create handler of main.py do.  A step
\* is a stretch of one caller's statements that runs without a thread
\* switch; a switch can come between any two of the steps below.
Shared == <<difficulty, tampered>>

\* what a step that neither appends a record nor starts a seal leaves alone
Counted == <<appended, log, seals>>

\* Len(chain) plus the blocks callers hold and have not appended yet
ChainAndHeld == Len(chain) + Cardinality({th \in Threads : pc[th] \in {"mine_block", "append_block"}})

\* add_testing_record up to and including its add_transaction
T_AddTestingRecord(th) ==
    /\ pc[th] = "idle"
    /\ CanAppend
    /\ \E u \in UnitIds, t \in now..MaxTime :
          /\ Commit(add_transaction(Ledger, TestingTx(u, [passed |-> TRUE], t)))
          /\ log' = Append(log, TestingTx(u, [passed |-> TRUE], t))
          /\ now' = t
    /\ appended' = appended + 1
    /\ pc' = [pc EXCEPT ![th] = "mine_pending_transactions"]
    /\ UNCHANGED <<ret, local, seals, Shared>>

\* the create handler of main.py up to the return of create_blood_unit
T_CreateBloodUnit(th) ==
    /\ pc[th] = "idle"
    /\ CanAppend
    /\ \E u \in UnitIds, t \in now..MaxTime :
          /\ Commit(add_transaction(Ledger,
                      CollectionTx(u, "D1", "O+", "2025-01-01", "BANK-1", t)))
          /\ log' = Append(log, CollectionTx(u, "D1", "O+", "2025-01-01", "BANK-1", t))
          /\ now' = t
    /\ appended' = appended + 1
    /\ pc' = [pc EXCEPT ![th] = "mine_pending_transactions"]
    /\ UNCHANGED <<ret, local, seals, Shared>>

\* mine_pending_transactions: `if not self.pending_transactions: return None`
T_TestPending(th) ==
    /\ pc[th] = "mine_pending_transactions"
    /\ IF Pending(Ledger) = <<>>
       THEN /\ pc' = [pc EXCEPT ![th] = "idle"]
            /\ ret' = [op |-> "mine_pending_transactions", none |-> TRUE]
       ELSE /\ pc' = [pc EXCEPT ![th] = "new_block"]
            /\ ret' = ret
    /\ seals' = IF Pending(Ledger) = <<>> THEN seals ELSE seals + 1
    /\ UNCHANGED <<chain, lists, pending_transactions, now, appended, log, local, Shared>>

\* mine_pending_transactions that puts the block on the chain before mining it
T_NewBlock_chained_unmined(th) ==
    /\ pc[th] = "new_block"
    /\ ChainAndHeld < MaxChain
    /\ \E t \in now..MaxTime :
          /\ local' = [local EXCEPT ![th] =
                          Block(Len(chain), t,
                                [tag |-> "transactions", ref |-> pending_transactions],
                                get_latest_block(Ledger).hash, lists)]
          /\ chain' = Append(chain,
                          Block(Len(chain), t,
                                [tag |-> "transactions", ref |-> pending_transactions],
                                get_latest_block(Ledger).hash, lists))
          /\ now' = t
    /\ pc' = [pc EXCEPT ![th] = "clear_pending"]
    /\ UNCHANGED <<lists, pending_transactions, ret, Counted, Shared>>

\* new_block = Block(len(self.chain), now, {"transactions": pending}, latest.hash)
T_NewBlock(th) ==
    /\ pc[th] = "new_block"
    /\ ChainAndHeld < MaxChain
    /\ \E t \in now..MaxTime :
          /\ local' = [local EXCEPT ![th] =
                          Block(Len(chain), t,
                                [tag |-> "transactions", ref |-> pending_transactions],
                                get_latest_block(Ledger).hash, lists)]
          /\ now' = t
    /\ pc' = [pc EXCEPT ![th] = "mine_block"]
    /\ UNCHANGED <<chain, lists, pending_transactions, ret, Counted, Shared>>

\* a loop of mine_block that adds two to the nonce at each turn
T_MineBlock_skipping(th) ==
    /\ pc[th] = "mine_block"
    /\ IF Prefix(local[th].hash, difficulty) = Target(difficulty)
       THEN /\ pc' = [pc EXCEPT ![th] = "append_block"]
            /\ local' = local
       ELSE /\ pc' = pc
            /\ local' = [local EXCEPT ![th] =
                 LET b1 == [local[th] EXCEPT !.nonce = @ + 2]
                 IN [b1 EXCEPT !.hash = calculate_hash(b1, lists)]]
    /\ UNCHANGED <<chain, lists, pending_transactions, now, ret, Counted, Shared>>

\* one turn of the loop of mine_block; calculate_hash reads the list as it is now
T_MineBlock(th) ==
    /\ pc[th] = "mine_block"
    /\ IF Prefix(local[th].hash, difficulty) = Target(difficulty)
       THEN /\ pc' = [pc EXCEPT ![th] = "append_block"]
            /\ local' = local
       ELSE /\ pc' = pc
            /\ local' = [local EXCEPT ![th] =
                 LET b1 == [local[th] EXCEPT !.nonce = @ + 1]
                 IN [b1 EXCEPT !.hash = calculate_hash(b1, lists)]]
    /\ UNCHANGED <<chain, lists, pending_transactions, now, ret, Counted, Shared>>

\* self.chain.append(new_block)
T_AppendBlock(th) ==
    /\ pc[th] = "append_block"
    /\ chain' = Append(chain, local[th])
    /\ pc' = [pc EXCEPT ![th] = "clear_pending"]
    /\ UNCHANGED <<lists, pending_transactions, now, ret, Counted, local, Shared>>

\* self.pending_transactions = [] ; return new_block
T_ClearPending(th) ==
    /\ pc[th] = "clear_pending"
    /\ lists' = Append(lists, <<>>)
    /\ pending_transactions' = Len(lists) + 1
    /\ ret' = [op |-> "mine_pending_transactions", none |-> FALSE, block |-> local[th]]
    /\ local' = [local EXCEPT ![th] = NoBlock]
    /\ pc' = [pc EXCEPT ![th] = "idle"]
    /\ UNCHANGED <<chain, now, Counted, Shared>>

NextConc ==
    \E th \in Threads :
        \/ T_AddTestingRecord(th)
        \/ T_CreateBloodUnit(th)
        \/ T_TestPending(th)
        \/ T_NewBlock(th)
        \/ T_MineBlock(th)
        \/ T_AppendBlock(th)
        \/ T_ClearPending(th)

SpecConc == Init /\ [][NextConc]_vars

\* One caller changes the ledger, statement by statement, while other callers
\* only read it.  A read is taken at one state: the blocks and record lists
\* a reader walks over are those of the chain at that moment.
Writer == 1

NextOneWriter ==
    \/ T_AddTestingRecord(Writer)
    \/ T_CreateBloodUnit(Writer)
    \/ T_TestPending(Writer)
    \/ T_NewBlock(Writer)
    \/ T_MineBlock(Writer)
    \/ T_AppendBlock(Writer)
    \/ T_ClearPending(Writer)
    \/ IsChainValid
    \/ GetUnitHistory
    \/ VerifyUnitAuthenticity
    \/ GetChainInfo

SpecOneWriter == Init /\ [][NextOneWriter]_vars

\* ------------------------------------------------------------ properties
\* the calls that end with a seal, and construction
\* ------------------------------------------------------------ the readers
\* Every read-only method, called in every kind of state: with records
\* pending, with sealed blocks, and after a field of a block was overwritten.
NextRead ==
    \/ ~tampered.on /\ now' = now /\ CreateBloodUnit
    \/ ~tampered.on /\ now' = now /\ MinePendingTransactions
    \/ ~tampered.on /\ now' = now /\ AddTransferRecord
    \/ TamperNonce
    \/ TamperRecords
    \/ IsChainValid
    \/ GetUnitHistory
    \/ VerifyUnitAuthenticity
    \/ GetUnitsByStatus
    \/ GetAuditTrail
    \/ GetChainInfo
    \/ ExportChain

SpecRead == Init /\ [][NextRead]_vars

\* ------------------------------------------------------ the HTTP handlers
\* The handlers of main.py on the one blood_blockchain object.  Each is an
\* `async def` without an await, so a request runs from its first statement
\* to its return before the next one begins: one action per request.

\* the test_results dict the test handler builds
HttpTestResults ==
    {[passed |-> p, technician_id |-> "TECH-1",
      tests_performed |-> <<"HIV", "Hepatitis B", "Hepatitis C", "Syphilis">>] :
        p \in BOOLEAN}

\* a create handler that leaves the sealing out
H_create_blood_unit_unsealed ==
    /\ CanAppend /\ CanSeal
    /\ \E u \in UnitIds, t1 \in now..MaxTime :
          LET transaction == CollectionTx(u, "D1", "O+", "2025-01-01", "BANK-1", t1)
          IN /\ Commit(add_transaction(Ledger, transaction))
             /\ log' = Append(log, transaction)
             /\ ret' = [op |-> "POST unit/create", unit_id |-> u]
             /\ now' = t1
    /\ appended' = appended + 1
    /\ UNCHANGED <<difficulty, seals, tampered, pc, local>>

\* POST /api/v1/blockchain/unit/create
H_create_blood_unit ==
    /\ CanAppend /\ CanSeal
    /\ \E u \in UnitIds, t1 \in now..MaxTime :
         \E t2 \in t1..MaxTime :
          LET transaction == CollectionTx(u, "D1", "O+", "2025-01-01", "BANK-1", t1)
              l1 == add_transaction(Ledger, transaction)
              l2 == mine_pending_transactions(l1, difficulty, t2)
          IN /\ Commit(l2)
             /\ log' = Append(log, transaction)
             /\ ret' = [op |-> "POST unit/create", unit_id |-> u]
             /\ now' = t2
    /\ appended' = appended + 1
    /\ seals' = seals + 1
    /\ UNCHANGED <<difficulty, tampered, pc, local>>

\* POST /api/v1/blockchain/unit/test
H_add_testing_record ==
    /\ CanAppend /\ CanSeal
    /\ \E u \in UnitIds, r \in HttpTestResults, t1 \in now..MaxTime :
         \E t2 \in t1..MaxTime :
            RecordEvent("POST unit/test", TestingTx(u, r, t1), t2)

\* POST /api/v1/blockchain/unit/transfer
H_transfer_blood_unit ==
    /\ CanAppend /\ CanSeal
    /\ \E u \in UnitIds, t1 \in now..MaxTime :
         \E t2 \in t1..MaxTime :
            RecordEvent("POST unit/transfer",
                        TransferTx(u, "BANK-1", "HOSP-1", "VAN-1", t1), t2)

\* GET /api/v1/blockchain/unit/{unit_id}
H_get_unit_history ==
    /\ \E u \in UnitIds :
          ret' = [op |-> "GET unit", unit_id |-> u,
                  history |-> get_unit_history(Ledger, u),
                  verification |-> verify_unit_authenticity(Ledger, u)]
    /\ UNCHANGED <<chain, lists, pending_transactions, difficulty, now, appended,
                   log, seals, tampered, pc, local>>

NextHttp ==
    \/ H_create_blood_unit
    \/ H_add_testing_record
    \/ H_transfer_blood_unit
    \/ H_get_unit_history

SpecHttp == Init /\ [][NextHttp]_vars

\* ------------------------------------------------ Block.mine_block alone
\* mine_block(difficulty) called on a block the way mine_pending_transactions
\* builds one, with any difficulty as argument, and called again on the
\* block it returned from.  `difficulty` is the argument of the call that
\* runs, pc = "append_block" is the point after the call's return, and ret
\* keeps the nonce the block had when the call began.

\* the digest's leading digits repeat with this period in the nonce
MinePeriod == Pow(DigitBase, HashLen)

\* the loop has no bound of its own; the model stops counting here
MaxNonce == 2 * MinePeriod

\* record lists a block under construction can refer to
MineInputs ==
    {<<>>} \cup {<<TransferTx("UNIT-A", "BANK-1", "HOSP-1", "VAN-1", t)>> :
                   t \in 0..MaxTime}

InitMine ==
    /\ \E t \in 0..MaxTime :
          /\ chain = create_genesis_block(EmptyLedger, DefaultDifficulty, t).chain
          /\ \E t2 \in t..MaxTime, txs \in MineInputs :
                /\ lists = <<txs>>
                /\ now = t2
                /\ local = [th \in Threads |->
                              IF th = Writer
                              THEN Block(Len(chain), t2,
                                         [tag |-> "transactions", ref |-> 1],
                                         chain[Len(chain)].hash, lists)
                              ELSE NoBlock]
    /\ pending_transactions = 1
    /\ difficulty \in 0..(HashLen + 1)
    /\ ret = [op |-> "mine_block", nonce |-> 0]
    /\ appended = 0
    /\ log = <<>>
    /\ seals = 0
    /\ tampered = NoTamper
    /\ pc = [th \in Threads |-> IF th = Writer THEN "mine_block" ELSE "idle"]

\* one turn of the loop, or the loop's exit
MineTurn ==
    /\ local[Writer].nonce < MaxNonce
    /\ T_MineBlock(Writer)

\* mine_block called again, with any difficulty, on the block it left
MineBlockAgain ==
    /\ pc[Writer] = "append_block"
    /\ local[Writer].nonce < MinePeriod
    /\ \E d \in 0..(HashLen + 1) : difficulty' = d
    /\ ret' = [op |-> "mine_block", nonce |-> local[Writer].nonce]
    /\ pc' = [pc EXCEPT ![Writer] = "mine_block"]
    /\ UNCHANGED <<chain, lists, pending_transactions, now, local, Counted, tampered>>

NextMine ==
    \/ MineTurn
    \/ MineBlockAgain

\* a loop that runs keeps running: the interpreter always takes its next turn
SpecMine == InitMine /\ [][NextMine]_vars /\ WF_vars(MineTurn)

Sealers == {"mine_pending_transactions", "add_testing_record", "add_storage_record",
            "add_transfer_record", "add_transfusion_record"}

\* C1: without tampering, is_chain_valid() is true right after construction
\* and right after every mine_pending_transactions, also when it ran as the
\* tail of an add_*_record call.
C1_ValidAfterCreateAndSeal ==
    ret.op \in Sealers \cup {"__init__"} => is_chain_valid(Ledger)

C1_Witness ==
    /\ ret.op = "mine_pending_transactions"
    /\ ~ret.none
    /\ Len(chain) = 3
    /\ chain[2].nonce > 0
    /\ is_chain_valid(Ledger)

\* C3: without tampering, every block of the chain, the genesis block
\* included, stores the hash that calculate_hash gives for its index,
\* timestamp, records, previous_hash and nonce.
C3_StoredHashIsRecomputedHash ==
    \A i \in 1..Len(chain) : chain[i].hash = calculate_hash(chain[i], lists)

C3_Witness ==
    /\ Len(chain) = 3
    /\ chain[1].nonce > 0
    /\ Len(Records(chain[2], lists)) >= 1
    /\ \A i \in 1..Len(chain) : chain[i].hash = calculate_hash(chain[i], lists)

\* C4: with one caller, every block after the first names the hash of the
\* block right before it as its previous_hash.
C4_HashLinkage ==
    \A i \in 2..Len(chain) : chain[i].previous_hash = chain[i - 1].hash

C4_Witness ==
    /\ Len(chain) = 3
    /\ chain[3].previous_hash = chain[2].hash
    /\ chain[2].hash # chain[1].hash

\* C5: the index of a block is its position in the chain, counted from 0.
C5_IndexIsPosition ==
    \A i \in 1..Len(chain) : chain[i].index = i - 1

C5_Witness ==
    /\ Len(chain) = 3
    /\ chain[1].index = 0 /\ chain[2].index = 1 /\ chain[3].index = 2

\* C9: mine_pending_transactions on an empty pending list returns None and
\* leaves chain, pending_transactions (and the list it names) and difficulty
\* as they were.
C9_EmptySealIsNoOp ==
    [][(MinePendingTransactions /\ Pending(Ledger) = <<>>)
         => /\ ret'.op = "mine_pending_transactions"
            /\ ret'.none
            /\ UNCHANGED <<chain, lists, pending_transactions, difficulty>>]_vars

C9_Witness ==
    /\ ret.op = "mine_pending_transactions"
    /\ ret.none
    /\ Pending(Ledger) = <<>>
    /\ Len(chain) = 2

\* C10: the chain is never empty, its first block is the genesis block
\* (index 0, previous_hash "0", no transactions), that block stays what
\* construction made it, and no later block has index 0 or is a genesis block.
C10_GenesisShape ==
    /\ Len(chain) >= 1
    /\ chain[1].index = 0
    /\ chain[1].previous_hash = ZeroHash
    /\ chain[1].data.tag = "genesis"
    /\ Records(chain[1], lists) = <<>>
    /\ \A i \in 2..Len(chain) :
          chain[i].index # 0 /\ chain[i].data.tag # "genesis"

C10_UniqueGenesis ==
    [](C10_GenesisShape) /\ [][chain'[1] = chain[1]]_vars

C10_Witness ==
    /\ Len(chain) = 3
    /\ chain[1].data.tag = "genesis"
    /\ chain[2].data.tag = "transactions" /\ chain[3].data.tag = "transactions"

\* C2: overwriting any one field of any block of the chain with another
\* value makes is_chain_valid() false.
C2_TamperDetected ==
    tampered.on => ~is_chain_valid(Ledger)

\* C6: once the records of a block after the first were altered and its hash
\* was left alone, is_chain_valid() is false and verify_unit_authenticity
\* answers verified = False and blockchain_valid = False for every unit with
\* a record in the chain; and it never answers verified = True while
\* is_chain_valid() is false.
C6_ViolationSurfaced ==
    /\ (tampered.on /\ tampered.field = "records" /\ tampered.block >= 1)
         => /\ ~is_chain_valid(Ledger)
            /\ \A u \in UnitIds :
                  get_unit_history(Ledger, u) # <<>>
                    => /\ ~verify_unit_authenticity(Ledger, u).verified
                       /\ ~verify_unit_authenticity(Ledger, u).blockchain_valid
    /\ \A u \in UnitIds :
          verify_unit_authenticity(Ledger, u).verified => is_chain_valid(Ledger)
    /\ (ret.op = "verify_unit_authenticity" /\ ret.result.verified)
         => is_chain_valid(Ledger)

C6_Witness ==
    /\ tampered.on /\ tampered.field = "records" /\ tampered.block = 2
    /\ ret.op = "verify_unit_authenticity"
    /\ "blockchain_valid" \in DOMAIN ret.result
    /\ ~ret.result.blockchain_valid
    /\ ~ret.result.verified

\* C7: with two or more callers interleaving their add_transaction and
\* mine_pending_transactions, the blocks of the chain still carry the indices
\* 0, 1, 2, ... and each names the hash of the block right before it.
C7_SequentialUnderInterleaving ==
    \A i \in 1..Len(chain) :
        /\ chain[i].index = i - 1
        /\ i >= 2 => chain[i].previous_hash = chain[i - 1].hash

\* the records of all blocks of the chain, counted with repetition
RECURSIVE RecordsInChain(_)
RecordsInChain(i) ==
    IF i > Len(chain) THEN 0
    ELSE Len(Records(chain[i], lists)) + RecordsInChain(i + 1)

\* C8: also when callers interleave, every appended record is in exactly one
\* place (the pending list or one block of the chain), and a block of the
\* chain holds the record list its hash was computed over.  Stated for the
\* states in which every call has returned.
C8_EachRecordInOnePlace ==
    (\A th \in Threads : pc[th] = "idle")
      => /\ Len(Pending(Ledger)) + RecordsInChain(1) = appended
         /\ \A i \in 2..Len(chain) : chain[i].hash = calculate_hash(chain[i], lists)

\* the records that were appended and have been sealed since, oldest first
SealedLog == SubSeq(log, 1, Len(log) - Len(Pending(Ledger)))

\* C11: with one caller, get_unit_history(unit_id) gives exactly the sealed
\* records of that unit (none of another unit, none still pending), in the
\* order in which they were appended, each with the index and the hash of
\* the block of the chain that holds it.
C11_HistoryIsSealedRecordsInOrder ==
    /\ \A u \in UnitIds :
          LET history == get_unit_history(Ledger, u)
              expected == SelectSeq(SealedLog, LAMBDA r : r.unit_id = u)
          IN /\ Len(history) = Len(expected)
             /\ \A k \in 1..Len(history) :
                   /\ history[k].transaction = expected[k]
                   /\ \E i \in 1..Len(chain) :
                         /\ chain[i].index = history[k].block_index
                         /\ chain[i].hash = history[k].block_hash
                         /\ \E j \in 1..Len(Records(chain[i], lists)) :
                               Records(chain[i], lists)[j] = history[k].transaction
    /\ ret.op = "get_unit_history"
         => \E u \in UnitIds :
               /\ Len(ret.value) = Len(SelectSeq(SealedLog, LAMBDA r : r.unit_id = u))
               /\ \A k \in 1..Len(ret.value) : ret.value[k].transaction.unit_id = u

C11_Witness ==
    /\ ret.op = "get_unit_history"
    /\ Len(ret.value) = 2
    /\ ret.value[1].block_index < ret.value[2].block_index
    /\ ret.value[1].transaction.timestamp < ret.value[2].transaction.timestamp

\* the places <<block, record>> of the chain that hold a record of unit u
PositionsOf(u) ==
    {p \in (1..Len(chain)) \X (1..MaxRecords) :
        /\ p[2] <= Len(Records(chain[p[1]], lists))
        /\ Records(chain[p[1]], lists)[p[2]].unit_id = u}

\* the last of them: the latest block, and in it the latest record
LastPositionOf(u) ==
    CHOOSE p \in PositionsOf(u) :
        \A q \in PositionsOf(u) : q[1] < p[1] \/ (q[1] = p[1] /\ q[2] <= p[2])

\* C12: verify_unit_authenticity(unit_id) answers for every unit_id: for a
\* unit without a record in the chain the not-found answer with verified =
\* False and no further fields; otherwise total_records is the number of the
\* unit's records in the chain, current_status the status of the last of
\* them, and verified and blockchain_valid are both what is_chain_valid()
\* gives, also after a block was overwritten.
C12_VerifyUnitVerdict ==
    /\ \A u \in UnitIds :
          LET v == verify_unit_authenticity(Ledger, u)
          IN IF PositionsOf(u) = {}
             THEN /\ DOMAIN v = {"verified", "message", "unit_id"}
                  /\ ~v.verified
                  /\ v.unit_id = u
             ELSE /\ DOMAIN v = {"verified", "message", "unit_id", "total_records",
                                  "current_status", "blockchain_valid"}
                  /\ v.total_records = Cardinality(PositionsOf(u))
                  /\ v.current_status =
                        Records(chain[LastPositionOf(u)[1]], lists)[LastPositionOf(u)[2]].status
                  /\ v.verified = is_chain_valid(Ledger)
                  /\ v.blockchain_valid = is_chain_valid(Ledger)
    /\ ret.op = "verify_unit_authenticity"
         => \E u \in UnitIds : ret.result = verify_unit_authenticity(Ledger, u)

C12_Witness ==
    /\ ret.op = "verify_unit_authenticity"
    /\ "total_records" \in DOMAIN ret.result
    /\ ret.result.total_records = 2
    /\ ret.result.current_status = "in_transit"
    /\ tampered.on
    /\ ~ret.result.verified

\* C13: with one caller, get_chain_info() gives total_blocks = 1 + the number
\* of mine_pending_transactions calls that found pending records,
\* total_transactions = the number of records sealed so far (the genesis block
\* adds none, pending records are not counted), chain_valid = what
\* is_chain_valid() gives, latest_block_hash = the hash of the last block of
\* the chain, and difficulty = the ledger's difficulty.
C13_ChainStats ==
    LET info == get_chain_info(Ledger, difficulty)
    IN /\ info.total_blocks = 1 + seals
       /\ info.total_transactions = Len(SealedLog)
       /\ info.chain_valid = is_chain_valid(Ledger)
       /\ info.latest_block_hash = chain[Len(chain)].hash
       /\ info.difficulty = difficulty
       /\ ret.op = "get_chain_info" => ret.info = info

C13_Witness ==
    /\ ret.op = "get_chain_info"
    /\ ret.info.total_blocks = 2
    /\ ret.info.total_transactions = 1
    /\ Len(Pending(Ledger)) = 1
    /\ seals = 1

\* what the add_*_record methods leave in ret
EventOps == {"add_testing_record", "add_storage_record",
             "add_transfer_record", "add_transfusion_record"}

\* a step that is one call of an add_*_record method: the call has returned
\* and its record is the one the log gained
RecordEventStep == ret'.op \in EventOps /\ Len(log') = Len(log) + 1

\* C14 as stated: every add_*_record call, also one made while the pending
\* list holds a record, grows the chain by exactly one block that holds
\* exactly the one record of this event, and leaves the pending list empty.
C14_EventIsItsOwnBlock ==
    [][RecordEventStep
         => /\ Len(chain') = Len(chain) + 1
            /\ Len(Records(chain'[Len(chain')], lists')) = 1
            /\ Records(chain'[Len(chain')], lists')[1] = log'[Len(log')]
            /\ lists'[pending_transactions'] = <<>>]_vars

\* C14 amended: every add_*_record call grows the chain by exactly one block
\* and leaves the pending list empty; the block holds the records that were
\* pending before the call, in their order, followed by the record of this
\* event, so it holds exactly this one record when nothing was pending.
C14_EventSealsAllPending ==
    [][RecordEventStep
         => /\ Len(chain') = Len(chain) + 1
            /\ SubSeq(chain', 1, Len(chain)) = chain
            /\ Records(chain'[Len(chain')], lists')
                  = Append(Pending(Ledger), log'[Len(log')])
            /\ (Pending(Ledger) = <<>>
                  => Len(Records(chain'[Len(chain')], lists')) = 1)
            /\ lists'[pending_transactions'] = <<>>]_vars

C14_Witness ==
    /\ ret.op \in EventOps
    /\ Len(chain) = 2
    /\ Len(Records(chain[2], lists)) = 2
    /\ Records(chain[2], lists)[1].type = "COLLECTION"
    /\ Records(chain[2], lists)[2].type # "COLLECTION"
    /\ Pending(Ledger) = <<>>

\* C16: the unit_id a create_blood_unit call returns is the unit_id of no
\* earlier record of the ledger, sealed or pending, so of no earlier
\* create_blood_unit call either: of all records handed to the ledger only
\* the COLLECTION record of this call names it.
C16_FreshUnitId ==
    ret.op = "create_blood_unit"
      => {k \in 1..Len(log) : log[k].unit_id = ret.unit_id} = {Len(log)}

\* the state right after create_blood_unit returned
AfterCreate == ret.op = "create_blood_unit"

\* C15: create_blood_unit appends exactly one record, a COLLECTION record
\* with status "collected" and the returned unit_id, to the pending list and
\* leaves the chain alone, so that right after it get_unit_history of the
\* returned id is empty and verify_unit_authenticity answers not-found; and
\* once the next mine_pending_transactions has run, get_unit_history of that
\* id gives exactly one record, the COLLECTION record with status "collected".
C15_CreateThenSeal ==
    /\ [](AfterCreate
            => /\ get_unit_history(Ledger, ret.unit_id) = <<>>
               /\ ~verify_unit_authenticity(Ledger, ret.unit_id).verified
               /\ "total_records" \notin DOMAIN verify_unit_authenticity(Ledger, ret.unit_id))
    /\ [][CreateBloodUnit
            => /\ chain' = chain
               /\ Len(lists'[pending_transactions']) = Len(Pending(Ledger)) + 1
               /\ SubSeq(lists'[pending_transactions'], 1, Len(Pending(Ledger)))
                     = Pending(Ledger)
               /\ LET r == lists'[pending_transactions'][Len(Pending(Ledger)) + 1]
                  IN /\ r.type = "COLLECTION"
                     /\ r.status = "collected"
                     /\ r.unit_id = ret'.unit_id]_vars
    /\ [][(AfterCreate /\ MinePendingTransactions)
            => LET history == get_unit_history(
                                 [chain |-> chain', lists |-> lists',
                                  pending |-> pending_transactions'], ret.unit_id)
               IN /\ Len(history) = 1
                  /\ history[1].transaction.type = "COLLECTION"
                  /\ history[1].transaction.status = "collected"]_vars

\* every record a list object of the ledger holds, pending or in a block
AllRecords == {lists[p[1]][p[2]] :
                 p \in {q \in (1..Len(lists)) \X (1..MaxRecords) : q[2] <= Len(lists[q[1]])}}

\* C17: a TESTING record has status "rejected" exactly when the test_results
\* it was built from carry passed = False, and "tested" when they carry
\* passed = True or no "passed" at all; a STORAGE record has status "stored",
\* a TRANSFER record "in_transit", a TRANSFUSION record "transfused".
C17_StatusByKind ==
    \A r \in AllRecords :
        /\ r.type = "TESTING"
             => /\ r.status \in {"tested", "rejected"}
                /\ r.status = "rejected"
                     <=> ("passed" \in DOMAIN r.test_results /\ ~r.test_results.passed)
        /\ r.type = "STORAGE" => r.status = "stored"
        /\ r.type = "TRANSFER" => r.status = "in_transit"
        /\ r.type = "TRANSFUSION" => r.status = "transfused"

C17_Witness ==
    /\ \E r \in AllRecords :
          r.type = "TESTING" /\ r.status = "rejected" /\ ~r.test_results.passed
    /\ \E r \in AllRecords :
          r.type = "TESTING" /\ r.status = "tested"
            /\ "passed" \notin DOMAIN r.test_results

\* the fields of a record that hold a string
StringFields(r) ==
    DOMAIN r \ {"timestamp", "temperature", "test_results", "patient_id_hash"}

\* C18: no record of the ledger, pending or in a block, has the patient_id
\* given to add_transfusion_record as a field or as the value of a field; a
\* TRANSFUSION record holds the sha256 digest of the patient_id and nothing
\* else about the patient.
C18_NoClearPatientId ==
    \A r \in AllRecords :
        /\ "patient_id" \notin DOMAIN r
        /\ \A key \in StringFields(r) : r[key] \notin PatientIds
        /\ r.type = "TRANSFUSION"
             => /\ "patient_id_hash" \in DOMAIN r
                /\ \E p \in PatientIds : r.patient_id_hash = PatientIdHash(p)
        /\ r.type # "TRANSFUSION" => "patient_id_hash" \notin DOMAIN r

C18_Witness ==
    /\ ret.op = "add_transfusion_record"
    /\ Records(chain[Len(chain)], lists)[1].type = "TRANSFUSION"
    /\ Records(chain[Len(chain)], lists)[1].patient_id_hash = PatientIdHash("PATIENT-1")
    /\ get_unit_history(Ledger, Records(chain[Len(chain)], lists)[1].unit_id) # <<>>

\* no create_blood_unit call has returned unit u
NeverCreated(u) ==
    \A k \in 1..Len(log) : ~(log[k].type = "COLLECTION" /\ log[k].unit_id = u)

\* C19: an add_*_record call for a unit_id that no create_blood_unit call
\* returned is carried out like any other: right after it the record of the
\* call is the last entry of get_unit_history(unit_id), found in the last
\* block of the chain, and verify_unit_authenticity(unit_id) gives a found
\* answer with verified = True, while the history holds no COLLECTION record.
C19_UnknownUnitAccepted ==
    (ret.op \in EventOps /\ NeverCreated(log[Len(log)].unit_id))
      => LET u == log[Len(log)].unit_id
             history == get_unit_history(Ledger, u)
             verdict == verify_unit_authenticity(Ledger, u)
         IN /\ Len(chain) = 1 + seals
            /\ history # <<>>
            /\ history[Len(history)].transaction = log[Len(log)]
            /\ history[Len(history)].block_index = Len(chain) - 1
            /\ \A k \in 1..Len(history) :
                  history[k].transaction.type # "COLLECTION"
            /\ "total_records" \in DOMAIN verdict
            /\ verdict.total_records = Len(history)
            /\ verdict.verified

C19_Witness ==
    /\ ret.op = "add_transfer_record"
    /\ Len(chain) = 3
    /\ \A u \in UnitIds : NeverCreated(u)
    /\ \E u \in UnitIds :
          /\ Len(get_unit_history(Ledger, u)) = 2
          /\ verify_unit_authenticity(Ledger, u).verified
          /\ verify_unit_authenticity(Ledger, u).current_status = "in_transit"

\* the units whose last record in the chain carries the status
UnitsWithLatestStatus(status) ==
    {u \in UnitIds :
        /\ PositionsOf(u) # {}
        /\ Records(chain[LastPositionOf(u)[1]], lists)[LastPositionOf(u)[2]].status
             = status}

\* C20: get_units_by_status(status) gives exactly the units whose latest
\* sealed record carries the status; a unit that had the status once and has
\* a later record with another status is not among them.
C20_UnitsByLatestStatus ==
    /\ \A status \in Statuses :
          get_units_by_status(Ledger, status) = UnitsWithLatestStatus(status)
    /\ ret.op = "get_units_by_status"
         => \E status \in Statuses : ret.units = UnitsWithLatestStatus(status)

\* the units that have a sealed record with the status, by the append log
UnitsWithSealedStatus(status) ==
    {SealedLog[k].unit_id :
        k \in {k \in 1..Len(SealedLog) : SealedLog[k].status = status}}

\* C21: with one caller, get_units_by_status(status) gives exactly the units
\* that have at least one sealed record with that status, wherever it stands
\* in the unit's history; a unit whose only record with the status is still
\* pending is not among them.  The result is built as a set, so no unit is
\* in it twice.
C21_UnitsWithAnyRecord ==
    /\ \A status \in Statuses :
          get_units_by_status(Ledger, status) = UnitsWithSealedStatus(status)
    /\ ret.op = "get_units_by_status"
         => \E status \in Statuses : ret.units = UnitsWithSealedStatus(status)

C21_Witness ==
    /\ ret.op = "get_units_by_status"
    /\ ret.units # {}
    /\ ret.units = get_units_by_status(Ledger, "collected")
    /\ UnitsWithLatestStatus("collected") = {}
    /\ Len(log) = 2

\* the sealed records whose own timestamp lies in [start_date, end_date]
SealedWithin(start_date, end_date) ==
    SelectSeq(SealedLog,
              LAMBDA r : start_date <= r.timestamp /\ r.timestamp <= end_date)

\* C22: get_audit_trail(start, end) gives exactly the sealed records whose own
\* timestamp t has start <= t <= end, in chain order, each with the index and
\* the hash of its block; the time at which the block was sealed plays no
\* part in the choice.
C22_AuditByRecordTime ==
    \A start_date \in 0..MaxTime, end_date \in 0..MaxTime :
        LET audit == get_audit_trail(Ledger, start_date, end_date)
            expected == SealedWithin(start_date, end_date)
        IN /\ Len(audit) = Len(expected)
           /\ \A k \in 1..Len(audit) :
                 /\ audit[k].timestamp = expected[k].timestamp
                 /\ audit[k].type = expected[k].type
                 /\ audit[k].unit_id = expected[k].unit_id
                 /\ audit[k].status = expected[k].status
                 /\ \E i \in 1..Len(chain) :
                       /\ chain[i].index = audit[k].block
                       /\ chain[i].hash = audit[k].block_hash
                       /\ \E j \in 1..Len(Records(chain[i], lists)) :
                             Records(chain[i], lists)[j] = expected[k]

\* block i of the chain is fully mined and names the block before it
FullyMined(i) ==
    /\ chain[i].hash = calculate_hash(chain[i], lists)
    /\ Prefix(chain[i].hash, difficulty) = Target(difficulty)
    /\ i >= 2 => chain[i].previous_hash = chain[i - 1].hash

\* C23: while one caller appends and seals, statement by statement, every
\* state a reader can see has a chain of fully mined, correctly linked
\* blocks; a step leaves the chain as it was or adds one such block to its
\* end, and the blocks already on the chain and their records stay as they
\* were; so is_chain_valid() is true whenever a reader calls it.
C23_NoPartialChain ==
    /\ [](/\ \A i \in 1..Len(chain) : FullyMined(i)
          /\ is_chain_valid(Ledger)
          /\ ret.op = "is_chain_valid" => ret.value)
    /\ [][/\ \/ chain' = chain
             \/ /\ Len(chain') = Len(chain) + 1
                /\ SubSeq(chain', 1, Len(chain)) = chain
          /\ \A i \in 1..Len(chain) :
                Records(chain'[i], lists') = Records(chain[i], lists)]_vars

C23_Witness ==
    /\ pc[Writer] = "clear_pending"
    /\ Len(chain) = 3
    /\ pending_transactions = chain[3].data.ref
    /\ ret.op = "is_chain_valid"
    /\ ret.value

\* a step that is one direct call of mine_pending_transactions that found
\* pending records
SealStep ==
    /\ ret'.op = "mine_pending_transactions"
    /\ Pending(Ledger) # <<>>
    /\ seals' = seals + 1

\* C24: mine_pending_transactions on a non-empty pending list adds exactly
\* one block to the chain: its index is the length the chain had, its
\* previous_hash the hash of the block that was last, its records the pending
\* records in their order, and its hash starts with `difficulty` zeros; the
\* call returns that block, leaves the earlier blocks and their records as
\* they were, and leaves the pending list empty.
C24_SealAppendsOneBlock ==
    [][SealStep
         => /\ Len(chain') = Len(chain) + 1
            /\ SubSeq(chain', 1, Len(chain)) = chain
            /\ \A i \in 1..Len(chain) :
                  Records(chain'[i], lists') = Records(chain[i], lists)
            /\ LET new_block == chain'[Len(chain')]
               IN /\ new_block.index = Len(chain)
                  /\ new_block.previous_hash = chain[Len(chain)].hash
                  /\ Records(new_block, lists') = Pending(Ledger)
                  /\ Len(new_block.hash.lead) >= difficulty
                  /\ \A k \in 1..difficulty : new_block.hash.lead[k] = 0
                  /\ ~ret'.none
                  /\ ret'.block = new_block
            /\ lists'[pending_transactions'] = <<>>]_vars

C24_Witness ==
    /\ ret.op = "mine_pending_transactions"
    /\ ~ret.none
    /\ Len(chain) = 2
    /\ ret.block = chain[2]
    /\ Len(Records(chain[2], lists)) = 2
    /\ Pending(Ledger) = <<>>

\* a step that is one direct call of add_transaction
AppendStep == ret'.op = "add_transaction" /\ Len(log') = Len(log) + 1

\* C25: add_transaction(record) puts the record at the end of the pending
\* list and changes nothing else: the chain, the difficulty, the records of
\* the blocks and the pending records that were there, in their order, stay
\* as they were, and no block is made.
C25_AppendFrame ==
    [][AppendStep
         => /\ chain' = chain
            /\ difficulty' = difficulty
            /\ pending_transactions' = pending_transactions
            /\ Len(lists') = Len(lists)
            /\ \A r \in 1..Len(lists) :
                  lists'[r] = IF r = pending_transactions
                              THEN Append(lists[r], log'[Len(log')])
                              ELSE lists[r]]_vars

C25_Witness ==
    /\ ret.op = "add_transaction"
    /\ Len(chain) = 1
    /\ Len(Pending(Ledger)) = 2
    /\ Pending(Ledger)[2].type = "NOTE"
    /\ Pending(Ledger)[1].type = "COLLECTION"

\* the call of mine_block is running / has returned
Mining == pc[Writer] = "mine_block"
Returned == pc[Writer] = "append_block"

\* the nonces from the one the call began with whose hash has the prefix
Qualifying ==
    {n \in ret.nonce..(ret.nonce + MinePeriod - 1) :
        Prefix(calculate_hash([local[Writer] EXCEPT !.nonce = n], lists), difficulty)
          = Target(difficulty)}

\* C26: mine_block only adds one to the nonce and recomputes the hash; it
\* returns exactly when some nonce from the starting one on gives a hash
\* with `difficulty` leading zeros, at the first such nonce (the starting one
\* if the hash qualifies at once), with the stored hash equal to the
\* recomputed one; when no such nonce exists it never returns.
C26_MineBlockTermination ==
    /\ [][Mining =>
            /\ [local'[Writer] EXCEPT !.nonce = 0, !.hash = ZeroHash]
                 = [local[Writer] EXCEPT !.nonce = 0, !.hash = ZeroHash]
            /\ \/ /\ local'[Writer].nonce = local[Writer].nonce
                  /\ local'[Writer].hash = local[Writer].hash
               \/ /\ local'[Writer].nonce = local[Writer].nonce + 1
                  /\ local'[Writer].hash = calculate_hash(local'[Writer], lists)
                  /\ Mining']_vars
    /\ [](Returned =>
            /\ local[Writer].nonce \in Qualifying
            /\ \A n \in Qualifying : local[Writer].nonce <= n
            /\ local[Writer].hash = calculate_hash(local[Writer], lists)
            /\ Prefix(local[Writer].hash, difficulty) = Target(difficulty))
    /\ []((Mining /\ Qualifying = {}) => []Mining)
    /\ ((Mining /\ Qualifying # {}) ~> Returned)

\* a call that began at a nonce above zero has returned after several turns
C26_Witness ==
    /\ Returned
    /\ ret.nonce > 0
    /\ local[Writer].nonce > ret.nonce + 1

\* C27: the chain is append-only: at every step the chain before is a prefix
\* of the chain after, and every block already in the chain keeps its index,
\* timestamp, previous_hash, nonce, hash and its records.
C27_AppendOnly ==
    [][/\ Len(chain') >= Len(chain)
       /\ \A i \in 1..Len(chain) :
             /\ chain'[i] = chain[i]
             /\ Records(chain'[i], lists') = Records(chain[i], lists)]_vars

\* the records of a block that is not the last were altered and its hash
\* was recomputed to match
RehashedInside ==
    /\ tampered.on
    /\ tampered.field = "records_rehashed"
    /\ tampered.block + 1 < Len(chain)

\* C28: after the records of a block that is not the last were altered and
\* that block's hash was recomputed to match, is_chain_valid() is false: the
\* altered block passes its own hash check and the next block no longer
\* names its hash.
C28_RehashedTamperDetected ==
    RehashedInside =>
        /\ chain[tampered.block + 1].hash
             = calculate_hash(chain[tampered.block + 1], lists)
        /\ chain[tampered.block + 2].previous_hash # chain[tampered.block + 1].hash
        /\ ~is_chain_valid(Ledger)
        /\ (ret.op = "is_chain_valid" => ~ret.value)

\* is_chain_valid() has answered False after a block with records, not the
\* last one, was altered and rehashed
C28_Witness ==
    /\ RehashedInside
    /\ tampered.block >= 1
    /\ ret.op = "is_chain_valid"
    /\ ~ret.value

\* C29: with the ledger driven only by the create, test and transfer
\* requests, one at a time, between requests the pending list is empty, the
\* k-th request's record is the one record of block k, and get_unit_history
\* of a unit shows every record the requests made for it; the history
\* request answers with exactly these.
C29_HttpOneRecordPerBlock ==
    /\ Pending(Ledger) = <<>>
    /\ Len(chain) = Len(log) + 1
    /\ \A k \in 1..Len(log) : Records(chain[k + 1], lists) = <<log[k]>>
    /\ \A u \in UnitIds :
          LET history == get_unit_history(Ledger, u)
              made == SelectSeq(log, LAMBDA r : r.unit_id = u)
          IN /\ Len(history) = Len(made)
             /\ \A k \in 1..Len(made) : history[k].transaction = made[k]
    /\ ret.op = "GET unit"
         => /\ Len(ret.history) = Len(SelectSeq(log, LAMBDA r : r.unit_id = ret.unit_id))
            /\ \A k \in 1..Len(ret.history) :
                  ret.history[k].transaction
                    = SelectSeq(log, LAMBDA r : r.unit_id = ret.unit_id)[k]

\* a history request has shown a unit's collection and a later event
C29_Witness ==
    /\ ret.op = "GET unit"
    /\ Len(ret.history) = 2
    /\ ret.history[1].transaction.type = "COLLECTION"
    /\ ret.history[2].transaction.type \in {"TESTING", "TRANSFER"}
    /\ Pending(Ledger) = <<>>

\* what the read-only methods leave in ret
ReadOps == {"is_chain_valid", "get_unit_history", "verify_unit_authenticity",
            "get_units_by_status", "get_audit_trail", "get_chain_info",
            "export_chain"}

\* C30: a call of is_chain_valid, get_unit_history, verify_unit_authenticity,
\* get_units_by_status, get_audit_trail, get_chain_info or export_chain
\* leaves the chain (every field of every block, stored nonce and hash
\* included), the record lists, the pending list and the difficulty as they
\* were, in every state; and the difficulty is the one set at construction
\* after every operation.
C30_ReadersChangeNothing ==
    /\ [](difficulty = DefaultDifficulty)
    /\ [][ret'.op \in ReadOps =>
            /\ chain' = chain
            /\ lists' = lists
            /\ pending_transactions' = pending_transactions
            /\ difficulty' = difficulty]_vars

\* is_chain_valid() has answered False for a chain with an altered block
\* whose stored hash is still the old one
C30_Witness ==
    /\ tampered.on
    /\ ret.op = "is_chain_valid"
    /\ ~ret.value
    /\ chain[tampered.block + 1].hash
         # calculate_hash(chain[tampered.block + 1], lists)

====
